---- MODULE Spec2Model ----
(***************************************************************************)
(* The request client of the front end (utils/postData.js): one call of   *)
(* postData, from the evaluation of its arguments to the value it returns, *)
(* with the network and the server as the environment.  The file holds two *)
(* revisions of postData; both are modelled and a call runs one of them.   *)
(* With it, the operation registry of the front end (ErrorProvider of the  *)
(* error context): the errors and loading flags of the components, written *)
(* through React state updates that the next render applies.  Last, the    *)
(* tool components of the router's pages (YouTubePolicyQA, InvoiceGenerator,*)
(* AMA, ContractExplainer): their forms, their submit handlers that call   *)
(* postData, and what they store of its outcome.                           *)
(***************************************************************************)
EXTENDS Integers, Sequences, FiniteSets, TLC

(***************************************************************************)
(* Bounds of the model.                                                    *)
(***************************************************************************)
\* time passes in steps of TickMs while a request is in flight
TickMs == 5000
\* the clock of one request is followed up to MaxElapsed ms
MaxElapsed == 25000
\* state updates that may wait for one render
MaxQueue == 2
\* requests of the components that may be in flight at once
MaxFlights == 2

(***************************************************************************)
(* JavaScript values.  A primitive is a record of one shape, so that any   *)
(* two values can be compared.                                             *)
(***************************************************************************)
Undefined == [t |-> "undefined", n |-> 0, s |-> ""]
Null == [t |-> "null", n |-> 0, s |-> ""]
Str(x) == [t |-> "string", n |-> 0, s |-> x]
Num(k) == [t |-> "number", n |-> k, s |-> ""]
Bool(b) == [t |-> "boolean", n |-> IF b THEN 1 ELSE 0, s |-> ""]
\* a nested object or array, opaque
Nested == [t |-> "object", n |-> 0, s |-> ""]

\* ToBoolean, as applied by `||`, `!` and `if`
Truthy(v) ==
    CASE v.t = "undefined" -> FALSE
      [] v.t = "null" -> FALSE
      [] v.t = "string" -> v.s # ""
      [] v.t = "number" -> v.n # 0
      [] v.t = "boolean" -> v.n = 1
      [] OTHER -> TRUE

\* a || b
Or(a, b) == IF Truthy(a) THEN a ELSE b

\* ToString, as applied by `new Error(message)`
ToStr(v) ==
    CASE v.t = "string" -> v.s
      [] v.t = "number" -> ToString(v.n)
      [] v.t = "boolean" -> IF v.n = 1 THEN "true" ELSE "false"
      [] v.t = "object" -> "[object Object]"
      [] OTHER -> v.t

(***************************************************************************)
(* A JSON value or object literal one level deep: a primitive, or an       *)
(* object with the properties the client and its callers read; a property  *)
(* that is absent reads as undefined.                                      *)
(***************************************************************************)
EmptyObject ==
    [kind |-> "object", prim |-> Undefined, error |-> Undefined,
     status |-> Undefined, details |-> Undefined, networkError |-> Undefined,
     success |-> Undefined, answer |-> Undefined]

Primitive(p) == [EmptyObject EXCEPT !.kind = "primitive", !.prim = p]

\* the value a call returns: an object (or primitive) and, when it has one,
\* the object under its `data` property
Plain(o) == [obj |-> o, data |-> Primitive(Undefined)]
WithData(o, d) == [obj |-> o, data |-> d]

\* reading a property of null or undefined throws a TypeError
Nullish(o) == o.kind = "primitive" /\ o.prim.t \in {"null", "undefined"}

\* o.f for o not nullish: a property of a number, string or boolean is undefined
Get(o, f) == IF o.kind = "object" THEN o[f] ELSE Undefined

(***************************************************************************)
(* Exceptions and completions.                                             *)
(***************************************************************************)
NoError == [name |-> "", message |-> ""]
TypeError(m) == [name |-> "TypeError", message |-> m]
SyntaxError(m) == [name |-> "SyntaxError", message |-> m]

NullReadError == TypeError("Cannot read properties of null (reading 'error')")
CircularError == TypeError("Converting circular structure to JSON")
UnexpectedToken == SyntaxError("Unexpected token < in JSON at position 0")

\* how a call ends: it returns a value or an exception leaves it
Pending == [type |-> "pending", value |-> Plain(Primitive(Undefined)), error |-> NoError]
Return(v) == [type |-> "return", value |-> v, error |-> NoError]
Throw(e) == [type |-> "throw", value |-> Plain(Primitive(Undefined)), error |-> e]

(***************************************************************************)
(* The environment: arguments of the callers, responses of the server.     *)
(***************************************************************************)
Revisions == {"current", "earlier"}

Urls == {"/api/ama/ask", "/api/content/check"}

\* the `data` argument: {} (the default), { question: "hi" }, and an object
\* that cannot be serialised
Datas == {"empty", "question", "circular"}

\* the third argument some callers pass (0: absent)
Timeouts == {0, 15000, 20000}

\* the attempts a caller asks for; postData declares (url, data) and has no
\* parameter that takes them
Attempts == {1, 3, 4, 5}

\* retryableStatus, by default
RetryableStatus(st) == st >= 500

\* JSON.stringify(data): the text, or a TypeError
Stringify(d) ==
    CASE d = "empty" -> Return(Plain(Primitive(Str("{}"))))
      [] d = "question" -> Return(Plain(Primitive(Str("{\"question\":\"hi\"}"))))
      [] OTHER -> Throw(CircularError)

Statuses == {200, 204, 299, 300, 400, 404, 500, 503}

ReasonPhrase(st) ==
    CASE st = 200 -> "OK"
      [] st = 204 -> "No Content"
      [] st = 300 -> "Multiple Choices"
      [] st = 400 -> "Bad Request"
      [] st = 404 -> "Not Found"
      [] st = 500 -> "Internal Server Error"
      [] st = 503 -> "Service Unavailable"
      [] OTHER -> ""

\* response.statusText: the reason phrase, empty over HTTP/2
StatusTexts(st) == {ReasonPhrase(st), ""}

\* response.ok
Ok(st) == st >= 200 /\ st <= 299

Object(e, st, d, a) ==
    [EmptyObject EXCEPT !.error = e, !.status = st, !.details = d, !.answer = a]

\* the bodies a server sends that parse as JSON
Bodies ==
    { Primitive(Null), Primitive(Num(5)), EmptyObject,
      Object(Undefined, Undefined, Undefined, Str("hi")),
      Object(Str("boom"), Undefined, Undefined, Undefined),
      Object(Str("boom"), Undefined, Str("trace"), Undefined),
      Object(Str("boom"), Num(418), Undefined, Undefined),
      Object(Nested, Undefined, Undefined, Undefined),
      Object(Str(""), Undefined, Undefined, Undefined),
      Object(Str("quota"), Undefined, Undefined, Str("hi")) }

\* the ways fetch() rejects; no signal is passed to it, so it is never aborted
FetchErrors ==
    { TypeError("Failed to fetch"), TypeError("NetworkError when attempting to fetch resource."),
      TypeError("") }

\* the ways response.json() rejects: the text is not JSON, or the body
\* stream breaks
JsonErrors == { UnexpectedToken, TypeError("network error") }

\* an awaited promise
Unsettled == [state |-> "pending", error |-> NoError]
Fulfilled == [state |-> "fulfilled", error |-> NoError]
Rejected(e) == [state |-> "rejected", error |-> e]

NoResponse == [status |-> 0, statusText |-> ""]
NoRequest == [url |-> "", body |-> ""]
NoArgs == [rev |-> "current", url |-> "", data |-> "empty", timeoutMs |-> 0,
           maxAttempts |-> 1]

(***************************************************************************)
(* postData, current revision (lines 36-78).                               *)
(***************************************************************************)
\* the catch clause lets the exception go on to the caller
CatchHandler_rethrow(error) == Throw(error)

\* catch (error) { return { error: error.message || "...", networkError: true } }
CatchHandler(error) ==
    Return(Plain([EmptyObject EXCEPT
        !.error = Or(Str(error.message), Str("Network error - please check your connection")),
        !.networkError = Bool(TRUE)]))

\* catch (parseError) { errorData = { error: `Server error: ...`, status } }
GenericErrorData(resp) ==
    [EmptyObject EXCEPT
        !.error = Str("Server error: " \o ToString(resp.status) \o " " \o resp.statusText),
        !.status = Num(resp.status)]

\* return { error: errorData.error || ..., status: ..., details: ... }
ErrorReturn(errorData, resp) ==
    IF Nullish(errorData)
    THEN Throw(NullReadError)
    ELSE Return(Plain([EmptyObject EXCEPT
            !.error = Or(Get(errorData, "error"), Str("An unknown error occurred")),
            !.status = Or(Get(errorData, "status"), Num(resp.status)),
            !.details = Or(Get(errorData, "details"), Null)]))

\* the Response is returned in place of its parsed body
SuccessReturn_response(responseData) == Return(Plain(EmptyObject))

\* return responseData
SuccessReturn(responseData) == Return(Plain(responseData))

(***************************************************************************)
(* postData, earlier revision (lines 2-27).                                *)
(***************************************************************************)
\* catch (error) { return { success: false, error: ..., networkError: error instanceof TypeError } }
EarlierCatchHandler(error) ==
    Return(Plain([EmptyObject EXCEPT
        !.success = Bool(FALSE),
        !.error = Or(Str(error.message), Str("Unknown error occurred")),
        !.networkError = Bool(error.name = "TypeError")]))

\* throw new Error(errorData.error || `Server error: ...`)
EarlierErrorThrow(errorData, resp) ==
    IF Nullish(errorData)
    THEN Throw(NullReadError)
    ELSE Throw([name |-> "Error",
                message |-> ToStr(Or(Get(errorData, "error"),
                    Str("Server error: " \o ToString(resp.status) \o " " \o resp.statusText)))])

\* return { success: true, data: result }
EarlierSuccessReturn(result) ==
    Return(WithData([EmptyObject EXCEPT !.success = Bool(TRUE)], result))

(***************************************************************************)
(* The try block of either revision: a completion that throws inside it is *)
(* handed to the revision's catch clause.                                  *)
(***************************************************************************)
Try(rv, c) ==
    IF c.type = "throw"
    THEN IF rv = "current" THEN CatchHandler(c.error) ELSE EarlierCatchHandler(c.error)
    ELSE c

(***************************************************************************)
(* ErrorProvider (error context): the two state objects and the updater    *)
(* functions its operations hand to React.  An object is a function from   *)
(* the keys it has to their values.                                        *)
(***************************************************************************)
\* the ids of the components that use the registry
Components == {"policy-advisor", "invoice-generator"}

\* the messages the components set: the error of the server's answer
\* (apiResponse.error) and one of their own
Messages == {"boom", "Please enter the brand or client name."}

\* useState({})
EmptyMap == [k \in {} |-> Undefined]

\* obj[key]
Lookup(obj, key) == IF key \in DOMAIN obj THEN obj[key] ELSE Undefined

\* the updater keeps only the error it sets
SetErrorUpdater_alone(prev, component, error) ==
    [k \in {component} |-> error]

\* prev => ({ ...prev, [component]: error })
SetErrorUpdater(prev, component, error) ==
    [k \in DOMAIN prev \cup {component} |-> IF k = component THEN error ELSE prev[k]]

\* the updater empties the object
ClearErrorUpdater_all(prev, component) == EmptyMap

\* prev => { const newErrors = { ...prev }; delete newErrors[component]; return newErrors }
ClearErrorUpdater(prev, component) ==
    [k \in DOMAIN prev \ {component} |-> prev[k]]

\* the flag is set only for a component that has none yet
SetLoadingUpdater_once(prev, component, isLoading) ==
    [k \in DOMAIN prev \cup {component} |->
        IF k \in DOMAIN prev THEN prev[k] ELSE isLoading]

\* prev => ({ ...prev, [component]: isLoading })
SetLoadingUpdater(prev, component, isLoading) ==
    [k \in DOMAIN prev \cup {component} |-> IF k = component THEN isLoading ELSE prev[k]]

\* the updates the operations enqueue
SetErrorUpdate(component, error) ==
    [op |-> "setError", component |-> component, value |-> error]
ClearErrorUpdate(component) ==
    [op |-> "clearError", component |-> component, value |-> Undefined]
SetLoadingUpdate(component, isLoading) ==
    [op |-> "setLoading", component |-> component, value |-> isLoading]

\* setting an error also takes the loading flag of the component down
ApplyUpdate_stopLoading(state, u) ==
    CASE u.op = "setError" ->
            [state EXCEPT !.errors = SetErrorUpdater(@, u.component, u.value),
                          !.loadingStates = SetLoadingUpdater(@, u.component, Bool(FALSE))]
      [] u.op = "clearError" ->
            [state EXCEPT !.errors = ClearErrorUpdater(@, u.component)]
      [] OTHER ->
            [state EXCEPT !.loadingStates = SetLoadingUpdater(@, u.component, u.value)]

\* React calls the updater of an update on the state of its hook
ApplyUpdate(state, u) ==
    CASE u.op = "setError" ->
            [state EXCEPT !.errors = SetErrorUpdater(@, u.component, u.value)]
      [] u.op = "clearError" ->
            [state EXCEPT !.errors = ClearErrorUpdater(@, u.component)]
      [] OTHER ->
            [state EXCEPT !.loadingStates = SetLoadingUpdater(@, u.component, u.value)]

\* a render applies the updates in the order they were enqueued
\* every updater is handed the state of the last render: only the last
\* update survives
ApplyAll_stale(state, q) ==
    IF q = <<>> THEN state ELSE ApplyUpdate(state, q[Len(q)])

RECURSIVE ApplyAll(_, _)
ApplyAll(state, q) ==
    IF q = <<>> THEN state ELSE ApplyAll(ApplyUpdate(state, Head(q)), Tail(q))

\* the history of a component that was never written
NeverWritten == [written |-> FALSE, loading |-> Bool(FALSE), error |-> Null]

(***************************************************************************)
(* The tool components: pages of the router, forms, validation.            *)
(***************************************************************************)
\* the page shown at "/", which holds no tool component
Home == "home"

\* the pages whose component keeps its loading flag in its own state
LocalPages == {"ama", "contract-explainer"}

\* the pages that hold a tool component
Pages == Components \cup LocalPages

\* no ErrorProvider above the component: useContext returns undefined
ProvidedContext_missing == Undefined

\* the value of the ErrorProvider that App renders above the router
ProvidedContext == Nested

\* useError(): the context, or an Error when there is none
useError(context) ==
    IF ~Truthy(context)
    THEN Throw([name |-> "Error", message |-> "useError must be used within an ErrorProvider"])
    ELSE Return(Plain(Primitive(context)))

NotMounted == Pending

\* a form: the text of the page (policyQuestion, formData.brand, userQuestion,
\* contractText) and, for the invoice, the service and the amount
NoForm == [text |-> "", service |-> "", amount |-> ""]
Text(s) == [NoForm EXCEPT !.text = s]
Invoice(b, s, a) == [text |-> b, service |-> s, amount |-> a]

\* what a user types into the form of a page
Forms(page) ==
    CASE page = "policy-advisor" ->
            { Text(""), Text("   "), Text("hey"), Text("Is reuse allowed?") }
      [] page = "invoice-generator" ->
            { NoForm, Invoice("Acme", "", ""), Invoice("Acme", "Video", ""),
              Invoice("Acme", "Video", "0"), Invoice("Acme", "Video", "500") }
      [] OTHER ->
            { Text(""), Text("   "), Text("What is fair use?") }

\* String.prototype.trim, on the texts of the forms
Trim(s) == IF s \in {"", "   "} THEN "" ELSE s

\* isNaN(amount) and parseFloat(amount), on the amounts of the forms
IsNaN(a) == a \notin {"", "0", "500"}
ParseFloat(a) == IF a = "500" THEN 500 ELSE 0

\* the validation does not trim the text
Validate_untrimmed(page, form) ==
    IF form.text = "" THEN Str("Please enter a valid question before submitting.") ELSE Null

\* validatePolicyInput, validateFormData, validateUserInput, validateInput:
\* the message of the first check that fails, null when the form is valid
Validate(page, form) ==
    CASE page = "policy-advisor" ->
            IF Trim(form.text) = ""
            THEN Str("Please enter a question about YouTube policies.")
            ELSE IF Len(Trim(form.text)) < 5
            THEN Str("Please enter a more detailed question (at least 5 characters).")
            ELSE Null
      [] page = "invoice-generator" ->
            IF Trim(form.text) = ""
            THEN Str("Please enter the brand or client name.")
            ELSE IF Trim(form.service) = ""
            THEN Str("Please describe the service provided.")
            ELSE IF form.amount = "" \/ IsNaN(form.amount) \/ ParseFloat(form.amount) <= 0
            THEN Str("Please enter a valid amount greater than zero.")
            ELSE Null
      [] page = "ama" ->
            IF Trim(form.text) = ""
            THEN Str("Please enter a valid question before submitting.")
            ELSE Null
      [] OTHER ->
            IF Trim(form.text) = ""
            THEN Str("Please provide contract text or upload a PDF file.")
            ELSE Null

\* the loading flag and the error of a component that keeps them itself
NoLocal == [loading |-> FALSE, error |-> Null]

\* the requests of a page's component that are in flight: those the mounted
\* component awaits, and those of components since unmounted
NoFlight == [mounted |-> 0, unmounted |-> 0]

\* a read of the registry: the component, and what was returned
NoRead == [component |-> "", loading |-> Undefined, error |-> Undefined]

(***************************************************************************)
(* What a component does with the outcome of postData.                     *)
(***************************************************************************)
\* what the network and the server do with the request of a component
Answers ==
    { [fetch |-> Rejected(TypeError("Failed to fetch")), response |-> NoResponse,
       json |-> Unsettled, body |-> Primitive(Undefined)] }
    \cup { [fetch |-> Fulfilled, response |-> [status |-> st, statusText |-> ReasonPhrase(st)],
            json |-> Fulfilled, body |-> b] :
              st \in {200, 503},
              b \in { Primitive(Null),
                      Object(Undefined, Undefined, Undefined, Str("hi")),
                      Object(Str("boom"), Undefined, Str("trace"), Undefined) } }
    \cup { [fetch |-> Fulfilled, response |-> [status |-> st, statusText |-> ReasonPhrase(st)],
            json |-> Rejected(UnexpectedToken), body |-> Primitive(Undefined)] :
              st \in {200, 503} }

\* postData(url, { ... }) of a revision, from its call to its outcome, when
\* the network does `net`; the data of a component can be serialised
PostData(rv, net) ==
    IF net.fetch.state = "rejected"
    THEN Try(rv, Throw(net.fetch.error))
    ELSE IF ~Ok(net.response.status)
    THEN IF rv = "current"
         THEN Try("current",
                  ErrorReturn(IF net.json.state = "fulfilled" THEN net.body
                              ELSE GenericErrorData(net.response), net.response))
         ELSE Try("earlier",
                  EarlierErrorThrow(IF net.json.state = "fulfilled" THEN net.body
                                    ELSE EmptyObject, net.response))
    ELSE IF net.json.state = "rejected"
    THEN Try(rv, Throw(net.json.error))
    ELSE IF rv = "current"
         THEN Try("current", SuccessReturn(net.body))
         ELSE Try("earlier", EarlierSuccessReturn(net.body))

\* o.f for o not nullish, also for a property no value of the model carries
Prop(o, f) == IF o.kind = "object" /\ f \in DOMAIN o THEN o[f] ELSE Undefined

\* what the continuation of a submit handler stores: an error, a result
NothingStored == [setError |-> FALSE, error |-> Null, setOutput |-> FALSE, output |-> Str("")]
StoreError(e) == [NothingStored EXCEPT !.setError = TRUE, !.error = e]
StoreOutput(v) == [NothingStored EXCEPT !.setOutput = TRUE, !.output = v]

\* the literals of the two components that use the registry
Literals(page) ==
    IF page = "policy-advisor"
    THEN [failed |-> "Failed to get policy information. Please try again.",
          none |-> "No policy information available.",
          unavailable |-> "Policy service unavailable",
          field |-> "answer"]
    ELSE [failed |-> "Failed to generate invoice. Please try again.",
          none |-> "No invoice content generated.",
          unavailable |-> "Invoice service unavailable",
          field |-> "invoice_text"]

\* catch (researchError) { setError(componentId, `System Error: ${...}`) }
RegistryCatch(page, e) ==
    StoreError(Str("System Error: " \o ToStr(Or(Str(e.message), Str(Literals(page).unavailable)))))

\* handlePolicyResearch, handleInvoiceGeneration after `await postData(...)`:
\* if (!response.success) setError(...) else setResult(response.data.x || ...)
RegistryHandle(page, r) ==
    IF r.type = "throw"
    THEN RegistryCatch(page, r.error)
    ELSE IF Nullish(r.value.obj)
    THEN RegistryCatch(page, TypeError("Cannot read properties of null (reading 'success')"))
    ELSE IF ~Truthy(Get(r.value.obj, "success"))
    THEN StoreError(Or(Get(r.value.obj, "error"), Str(Literals(page).failed)))
    ELSE IF Nullish(r.value.data)
    THEN RegistryCatch(page, TypeError("Cannot read properties of undefined (reading '"
                                        \o Literals(page).field \o "')"))
    ELSE StoreOutput(Or(Prop(r.value.data, Literals(page).field), Str(Literals(page).none)))

\* AMA, handleFormSubmission after `await postData(...)`: the answer and the
\* errors all go to advisorResponse (the symbol that leads a literal is left out)
AmaHandle(r) ==
    IF r.type = "throw"
    THEN StoreOutput(Str("Network Error: " \o ToStr(Or(Str(r.error.message), Str("Connection failed")))))
    ELSE IF Nullish(r.value.obj)
    THEN StoreOutput(Str("Network Error: Cannot read properties of null (reading 'error')"))
    ELSE IF Truthy(Get(r.value.obj, "error"))
    THEN StoreOutput(Str("API Error: " \o ToStr(Get(r.value.obj, "error"))))
    ELSE StoreOutput(Or(Get(r.value.obj, "answer"), Str("No response received from advisor.")))

\* ContractExplainer, handleSubmit after `await postData(...)`
ContractHandle(r) ==
    IF r.type = "throw"
    THEN StoreError(Str("Processing Error: " \o ToStr(Or(Str(r.error.message), Str("Service unavailable")))))
    ELSE IF Nullish(r.value.obj)
    THEN StoreError(Str("Processing Error: Cannot read properties of null (reading 'error')"))
    ELSE LET o == r.value.obj IN
         IF Truthy(Get(o, "error"))
         THEN IF Truthy(Get(o, "networkError"))
              THEN StoreError(Str("Network Error: " \o ToStr(Get(o, "error"))))
              ELSE IF Get(o, "status") = Num(503)
              THEN StoreError(Str("Service Unavailable: " \o ToStr(Get(o, "error"))))
              ELSE IF Get(o, "status") = Num(400)
              THEN StoreError(Str("Invalid Request: " \o ToStr(Get(o, "error"))))
              ELSE StoreError(Str(ToStr(Get(o, "error")) \o
                        (IF Truthy(Get(o, "details"))
                         THEN " - " \o ToStr(Get(o, "details")) ELSE "")))
         ELSE StoreOutput(Or(Prop(o, "summary"), Str("No analysis generated.")))

Handle(page, r) ==
    CASE page \in Components -> RegistryHandle(page, r)
      [] page = "ama" -> AmaHandle(r)
      [] OTHER -> ContractHandle(r)

\* the history of the writes, after one more update
RecordUpdate(l, u) ==
    CASE u.op = "setError" ->
            [l EXCEPT ![u.component].written = TRUE, ![u.component].error = u.value]
      [] u.op = "clearError" ->
            [l EXCEPT ![u.component].written = TRUE, ![u.component].error = Null]
      [] OTHER ->
            [l EXCEPT ![u.component].written = TRUE, ![u.component].loading = u.value]

RECURSIVE RecordAll(_, _)
RecordAll(l, q) ==
    IF q = <<>> THEN l ELSE RecordAll(RecordUpdate(l, Head(q)), Tail(q))

VARIABLES
    pc,        \* where the call is: idle, awaitFetch, awaitErrorJson, awaitJson, done
    args,      \* the revision called and its arguments
    requests,  \* fetch() calls made by the call
    sent,      \* the request last handed to fetch()
    elapsed,   \* ms since the request was handed to fetch(), while it is in flight
    promise,   \* the promise the call is suspended on
    response,  \* the Response fetch() resolved to
    body,      \* what response.json() resolved to
    result,    \* how the call ended
    errors,         \* ErrorProvider: the errors state, component -> error
    loadingStates,  \* ErrorProvider: the loadingStates state, component -> flag
    queue,          \* state updates enqueued and not yet applied by a render
    last,           \* per component, what the latest writes passed (history)
    route,     \* the page the router shows
    hook,      \* how useError() ended when the page's component was mounted
    input,     \* the form of the mounted component
    output,    \* the result the mounted component holds
    local,     \* the loading flag and error a component keeps in its own state
    flights,   \* the requests of the components that are in flight
    seen       \* what the last read since the last render returned (history)

clientVars == <<pc, args, requests, sent, elapsed, promise, response, body, result>>

registryVars == <<errors, loadingStates, queue, last>>

componentVars == <<route, hook, input, output, local, flights, seen>>

vars == <<pc, args, requests, sent, elapsed, promise, response, body, result,
          errors, loadingStates, queue, last,
          route, hook, input, output, local, flights, seen>>

Init ==
    /\ pc = "idle"
    /\ args = NoArgs
    /\ requests = 0
    /\ sent = NoRequest
    /\ elapsed = 0
    /\ promise = Unsettled
    /\ response = NoResponse
    /\ body = Primitive(Undefined)
    /\ result = Pending
    /\ errors = EmptyMap
    /\ loadingStates = EmptyMap
    /\ queue = <<>>
    /\ last = [c \in Components |-> NeverWritten]
    /\ route = Home
    /\ hook = NotMounted
    /\ input = NoForm
    /\ output = Str("")
    /\ local = NoLocal
    /\ flights = [page \in Pages |-> NoFlight]
    /\ seen = NoRead

\* postData(url, data, timeoutMs, maxAttempts): the arguments of fetch are
\* evaluated, JSON.stringify(data) among them, and fetch is called
CallWith(rv, url, data, timeoutMs, maxAttempts) ==
    /\ pc = "idle"
    /\ args' = [rev |-> rv, url |-> url, data |-> data, timeoutMs |-> timeoutMs,
                maxAttempts |-> maxAttempts]
    /\ elapsed' = 0
    /\ promise' = Unsettled
    /\ response' = NoResponse
    /\ body' = Primitive(Undefined)
    /\ LET text == Stringify(data) IN
       IF text.type = "throw"
       THEN /\ requests' = 0
            /\ sent' = NoRequest
            /\ result' = Try(rv, text)
            /\ pc' = "done"
       ELSE /\ requests' = 1
            /\ sent' = [url |-> url, body |-> text.value.obj.prim.s]
            /\ result' = Pending
            /\ pc' = "awaitFetch"
    /\ UNCHANGED registryVars
    /\ UNCHANGED componentVars

\* postData(url, data, timeoutMs), as the callers of the source call it
Call(rv, url, data, timeoutMs) == CallWith(rv, url, data, timeoutMs, 1)

\* time passes while the request is in flight
Tick ==
    /\ pc = "awaitFetch"
    /\ promise.state = "pending"
    /\ elapsed < MaxElapsed
    /\ elapsed' = elapsed + TickMs
    /\ UNCHANGED <<pc, args, requests, sent, promise, response, body, result>>
    /\ UNCHANGED registryVars
    /\ UNCHANGED componentVars

\* the server answers: fetch() resolves to a Response
NetRespond(st, text) ==
    /\ pc = "awaitFetch"
    /\ promise.state = "pending"
    /\ promise' = Fulfilled
    /\ response' = [status |-> st, statusText |-> text]
    /\ UNCHANGED <<pc, args, requests, sent, elapsed, body, result>>
    /\ UNCHANGED registryVars
    /\ UNCHANGED componentVars

\* no response is obtained: fetch() rejects
NetFail(e) ==
    /\ pc = "awaitFetch"
    /\ promise.state = "pending"
    /\ promise' = Rejected(e)
    /\ UNCHANGED <<pc, args, requests, sent, elapsed, response, body, result>>
    /\ UNCHANGED registryVars
    /\ UNCHANGED componentVars

\* a rejected fetch is issued again in place of being reported
ResumeFetch_again ==
    /\ pc = "awaitFetch"
    /\ promise.state # "pending"
    /\ IF promise.state = "rejected"
       THEN /\ requests' = requests + 1
            /\ promise' = Unsettled
            /\ UNCHANGED pc
       ELSE /\ pc' = IF Ok(response.status) THEN "awaitJson" ELSE "awaitErrorJson"
            /\ promise' = Unsettled
            /\ UNCHANGED requests
    /\ UNCHANGED <<args, sent, elapsed, response, body, result>>
    /\ UNCHANGED registryVars
    /\ UNCHANGED componentVars

\* the call resumes after `await fetch(...)`
ResumeFetch ==
    /\ pc = "awaitFetch"
    /\ promise.state # "pending"
    /\ IF promise.state = "rejected"
       THEN /\ result' = Try(args.rev, Throw(promise.error))
            /\ pc' = "done"
            /\ UNCHANGED promise
       ELSE /\ pc' = IF Ok(response.status) THEN "awaitJson" ELSE "awaitErrorJson"
            /\ promise' = Unsettled
            /\ UNCHANGED result
    /\ UNCHANGED <<args, requests, sent, elapsed, response, body>>
    /\ UNCHANGED registryVars
    /\ UNCHANGED componentVars

\* response.json() resolves to the parsed body
BodyParsed(b) ==
    /\ pc \in {"awaitJson", "awaitErrorJson"}
    /\ promise.state = "pending"
    /\ promise' = Fulfilled
    /\ body' = b
    /\ UNCHANGED <<pc, args, requests, sent, elapsed, response, result>>
    /\ UNCHANGED registryVars
    /\ UNCHANGED componentVars

\* response.json() rejects
BodyFail(e) ==
    /\ pc \in {"awaitJson", "awaitErrorJson"}
    /\ promise.state = "pending"
    /\ promise' = Rejected(e)
    /\ UNCHANGED <<pc, args, requests, sent, elapsed, response, body, result>>
    /\ UNCHANGED registryVars
    /\ UNCHANGED componentVars

\* a failed response is retried while attempts remain
ResumeErrorJson_again ==
    /\ pc = "awaitErrorJson"
    /\ promise.state # "pending"
    /\ IF requests < args.maxAttempts
       THEN /\ requests' = requests + 1
            /\ pc' = "awaitFetch"
            /\ promise' = Unsettled
            /\ response' = NoResponse
            /\ body' = Primitive(Undefined)
            /\ UNCHANGED result
       ELSE /\ result' =
                  IF args.rev = "current"
                  THEN Try("current",
                           ErrorReturn(IF promise.state = "fulfilled" THEN body
                                       ELSE GenericErrorData(response), response))
                  ELSE Try("earlier",
                           EarlierErrorThrow(IF promise.state = "fulfilled" THEN body
                                             ELSE EmptyObject, response))
            /\ pc' = "done"
            /\ UNCHANGED <<requests, promise, response, body>>
    /\ UNCHANGED <<args, sent, elapsed>>
    /\ UNCHANGED registryVars
    /\ UNCHANGED componentVars

\* the !response.ok branch resumes after `await response.json()`
ResumeErrorJson ==
    /\ pc = "awaitErrorJson"
    /\ promise.state # "pending"
    /\ result' =
          IF args.rev = "current"
          THEN Try("current",
                   ErrorReturn(IF promise.state = "fulfilled" THEN body
                               ELSE GenericErrorData(response), response))
          ELSE Try("earlier",
                   EarlierErrorThrow(IF promise.state = "fulfilled" THEN body
                                     ELSE EmptyObject, response))
    /\ pc' = "done"
    /\ UNCHANGED <<args, requests, sent, elapsed, promise, response, body>>
    /\ UNCHANGED registryVars
    /\ UNCHANGED componentVars

\* the response.ok branch resumes after `await response.json()`
ResumeJson ==
    /\ pc = "awaitJson"
    /\ promise.state # "pending"
    /\ result' =
          IF promise.state = "rejected"
          THEN Try(args.rev, Throw(promise.error))
          ELSE IF args.rev = "current"
               THEN Try("current", SuccessReturn(body))
               ELSE Try("earlier", EarlierSuccessReturn(body))
    /\ pc' = "done"
    /\ UNCHANGED <<args, requests, sent, elapsed, promise, response, body>>
    /\ UNCHANGED registryVars
    /\ UNCHANGED componentVars

\* the caller takes the outcome; the client is ready for the next call
Settle ==
    /\ pc = "done"
    /\ pc' = "idle"
    /\ UNCHANGED <<args, requests, sent, elapsed, promise, response, body, result>>
    /\ UNCHANGED registryVars
    /\ UNCHANGED componentVars

Next ==
    \/ \E rv \in Revisions, url \in Urls, data \in Datas, timeoutMs \in Timeouts :
          Call(rv, url, data, timeoutMs)
    \/ Tick
    \/ \E st \in Statuses : \E text \in StatusTexts(st) : NetRespond(st, text)
    \/ \E e \in FetchErrors : NetFail(e)
    \/ ResumeFetch
    \/ \E b \in Bodies : BodyParsed(b)
    \/ \E e \in JsonErrors : BodyFail(e)
    \/ ResumeErrorJson
    \/ ResumeJson
    \/ Settle

Spec == Init /\ [][Next]_vars

\* the calls that pass a number of attempts after the timeout
RetryNext ==
    \/ \E rv \in Revisions, url \in Urls, data \in Datas, maxAttempts \in Attempts :
          CallWith(rv, url, data, 15000, maxAttempts)
    \/ Tick
    \/ \E st \in Statuses : \E text \in StatusTexts(st) : NetRespond(st, text)
    \/ \E e \in FetchErrors : NetFail(e)
    \/ ResumeFetch
    \/ \E b \in Bodies : BodyParsed(b)
    \/ \E e \in JsonErrors : BodyFail(e)
    \/ ResumeErrorJson
    \/ ResumeJson
    \/ Settle

RetrySpec == Init /\ [][RetryNext]_vars

(***************************************************************************)
(* ErrorProvider: writes, the render that applies them, reads.             *)
(***************************************************************************)
\* setError(component, error)
setError(component, error) ==
    /\ Len(queue) < MaxQueue
    /\ queue' = Append(queue, SetErrorUpdate(component, error))
    /\ last' = [last EXCEPT ![component].written = TRUE, ![component].error = error]
    /\ UNCHANGED <<errors, loadingStates>>
    /\ UNCHANGED clientVars
    /\ UNCHANGED componentVars

\* clearError(component)
clearError(component) ==
    /\ Len(queue) < MaxQueue
    /\ queue' = Append(queue, ClearErrorUpdate(component))
    /\ last' = [last EXCEPT ![component].written = TRUE, ![component].error = Null]
    /\ UNCHANGED <<errors, loadingStates>>
    /\ UNCHANGED clientVars
    /\ UNCHANGED componentVars

\* setLoading(component, isLoading)
setLoading(component, isLoading) ==
    /\ Len(queue) < MaxQueue
    /\ queue' = Append(queue, SetLoadingUpdate(component, isLoading))
    /\ last' = [last EXCEPT ![component].written = TRUE, ![component].loading = isLoading]
    /\ UNCHANGED <<errors, loadingStates>>
    /\ UNCHANGED clientVars
    /\ UNCHANGED componentVars

\* the updates are applied from last to first
Render_reversed ==
    /\ queue # <<>>
    /\ LET rev == [i \in 1..Len(queue) |-> queue[Len(queue) + 1 - i]]
           state == ApplyAll([errors |-> errors, loadingStates |-> loadingStates], rev)
       IN /\ errors' = state.errors
          /\ loadingStates' = state.loadingStates
    /\ queue' = <<>>
    /\ seen' = NoRead
    /\ UNCHANGED last
    /\ UNCHANGED clientVars
    /\ UNCHANGED <<route, hook, input, output, local, flights>>

\* React renders the provider: the enqueued updates become the state
Render ==
    /\ queue # <<>>
    /\ LET state == ApplyAll([errors |-> errors, loadingStates |-> loadingStates], queue)
       IN /\ errors' = state.errors
          /\ loadingStates' = state.loadingStates
    /\ queue' = <<>>
    /\ seen' = NoRead
    /\ UNCHANGED last
    /\ UNCHANGED clientVars
    /\ UNCHANGED <<route, hook, input, output, local, flights>>

\* the flag is returned as it is stored
isLoading_raw(component) == Lookup(loadingStates, component)

\* isLoading(component): !!loadingStates[component]
isLoading(component) == Bool(Truthy(Lookup(loadingStates, component)))

\* errors[componentId] || null
getError(component) == Or(Lookup(errors, component), Null)

RegistryNext ==
    \/ \E c \in Components, m \in Messages : setError(c, Str(m))
    \/ \E c \in Components : clearError(c)
    \/ \E c \in Components, b \in BOOLEAN : setLoading(c, Bool(b))
    \/ Render

RegistrySpec == Init /\ [][RegistryNext]_vars

(***************************************************************************)
(* The tool components: navigation, edits of the form, submissions and     *)
(* the continuation of a submission once postData has returned.            *)
(***************************************************************************)
\* React applies the state updates of a handler before the next event is
\* handled: the updates become the state of the provider
Commit(ws) ==
    LET state == ApplyAll([errors |-> errors, loadingStates |-> loadingStates], queue \o ws)
    IN /\ errors' = state.errors
       /\ loadingStates' = state.loadingStates
       /\ queue' = <<>>
       /\ last' = RecordAll(last, ws)

\* the loading flag the component renders with
Loading(page) ==
    IF page \in Components THEN Truthy(isLoading(page)) ELSE local.loading

\* the controls stay enabled while the component is loading
Enabled_always(page) == TRUE

\* disabled={isLoading(componentId)}, disabled={isLoading}, disabled={processing}
Enabled(page) == ~Loading(page)

\* the tree has rendered: no component has thrown while rendering
Running == hook.type # "throw"

\* the router shows another page: the component of the page left is
\* unmounted, the component of the page is mounted with its initial state
Navigate(page) ==
    /\ Running
    /\ page # route
    /\ route' = page
    /\ hook' = IF page \in Components THEN useError(ProvidedContext) ELSE NotMounted
    /\ input' = NoForm
    /\ output' = Str("")
    /\ local' = NoLocal
    /\ flights' = [p \in Pages |->
                      [mounted |-> 0, unmounted |-> flights[p].unmounted + flights[p].mounted]]
    /\ UNCHANGED <<registryVars, seen>>
    /\ UNCHANGED clientVars

\* handlePolicyInputChange, handleFormInputChange, handleInputChange,
\* handleTextChange: the form changes and the error is cleared
Edit(form) ==
    /\ Running
    /\ route \in Pages
    /\ Enabled(route)
    /\ form # input
    /\ input' = form
    /\ IF route \in Components
       THEN /\ Commit(<<ClearErrorUpdate(route)>>)
            /\ UNCHANGED local
       ELSE /\ local' = [local EXCEPT !.error = Null]
            /\ UNCHANGED registryVars
    /\ UNCHANGED <<route, hook, output, flights, seen>>
    /\ UNCHANGED clientVars

\* the requests in flight
InFlight(page) == flights[page].mounted + flights[page].unmounted

RECURSIVE Sum(_, _)
Sum(f, S) == IF S = {} THEN 0 ELSE LET x == CHOOSE x \in S : TRUE IN f[x] + Sum(f, S \ {x})

AllInFlight == Sum([p \in Pages |-> InFlight(p)], Pages)

\* the submit handler of the mounted component, up to its `await postData`
SubmitHandler ==
    LET page == route
        message == Validate(page, input)
    IN IF message # Null
       THEN /\ CASE page \in Components ->
                      /\ Commit(<<SetErrorUpdate(page, message)>>)
                      /\ UNCHANGED <<local, output>>
                 [] page = "ama" ->
                      /\ output' = message
                      /\ UNCHANGED local
                      /\ UNCHANGED registryVars
                 [] OTHER ->
                      /\ local' = [local EXCEPT !.error = message]
                      /\ UNCHANGED output
                      /\ UNCHANGED registryVars
            /\ UNCHANGED flights
       ELSE /\ AllInFlight < MaxFlights
            /\ flights' = [flights EXCEPT ![page].mounted = @ + 1]
            /\ output' = Str("")
            /\ IF page \in Components
               THEN /\ Commit(<<ClearErrorUpdate(page), SetLoadingUpdate(page, Bool(TRUE)),
                                ClearErrorUpdate(page)>>)
                    /\ UNCHANGED local
               ELSE /\ local' = [loading |-> TRUE, error |-> Null]
                    /\ UNCHANGED registryVars

\* the form is submitted
Submit ==
    /\ Running
    /\ route \in Pages
    /\ Enabled(route)
    /\ SubmitHandler
    /\ UNCHANGED <<route, hook, input, seen>>
    /\ UNCHANGED clientVars

\* handleRetry, from the Try Again button that ErrorDisplay shows with the
\* error of the contract page
Retry ==
    /\ Running
    /\ route = "contract-explainer"
    /\ ~local.loading
    /\ Truthy(local.error)
    /\ Trim(input.text) # ""
    /\ SubmitHandler
    /\ UNCHANGED <<route, hook, input, seen>>
    /\ UNCHANGED clientVars

\* the flag is taken down only by the last operation in flight under the id
Complete_counted(page, shown, rv, net) ==
    /\ IF shown THEN flights[page].mounted > 0 ELSE flights[page].unmounted > 0
    /\ page \in Components
    /\ LET h == Handle(page, PostData(rv, net))
       IN Commit((IF h.setError THEN <<SetErrorUpdate(page, h.error)>> ELSE <<>>)
                 \o (IF InFlight(page) = 1 THEN <<SetLoadingUpdate(page, Bool(FALSE))>>
                     ELSE <<>>))
    /\ flights' = IF shown THEN [flights EXCEPT ![page].mounted = @ - 1]
                  ELSE [flights EXCEPT ![page].unmounted = @ - 1]
    /\ UNCHANGED <<route, hook, input, output, local, seen>>
    /\ UNCHANGED clientVars

\* postData returns to the handler that awaits it: the handler stores the
\* outcome and takes the loading flag down; the state of a component that
\* is no longer mounted is not updated, the provider's is
Complete(page, shown, rv, net) ==
    /\ IF shown THEN flights[page].mounted > 0 ELSE flights[page].unmounted > 0
    /\ LET h == Handle(page, PostData(rv, net))
       IN /\ IF page \in Components
             THEN /\ Commit((IF h.setError THEN <<SetErrorUpdate(page, h.error)>> ELSE <<>>)
                            \o <<SetLoadingUpdate(page, Bool(FALSE))>>)
                  /\ UNCHANGED local
             ELSE /\ local' = IF shown
                              THEN [loading |-> FALSE,
                                    error |-> IF h.setError THEN h.error ELSE local.error]
                              ELSE local
                  /\ UNCHANGED registryVars
          /\ output' = IF shown /\ h.setOutput THEN h.output ELSE output
    /\ flights' = IF shown THEN [flights EXCEPT ![page].mounted = @ - 1]
                  ELSE [flights EXCEPT ![page].unmounted = @ - 1]
    /\ UNCHANGED <<route, hook, input, seen>>
    /\ UNCHANGED clientVars

ComponentNext ==
    \/ \E page \in Pages \cup {Home} : Navigate(page)
    \/ \E form \in Forms(route) : Edit(form)
    \/ Submit
    \/ Retry
    \/ \E page \in Pages, shown \in BOOLEAN, rv \in Revisions, net \in Answers :
          Complete(page, shown, rv, net)

ComponentSpec == Init /\ [][ComponentNext]_vars

\* a caller that no form holds back starts an operation under the id of a
\* component, as the submit handlers do: setLoading(id, true), clearError(id),
\* then postData
Begin(page) ==
    /\ AllInFlight < MaxFlights
    /\ flights' = [flights EXCEPT ![page].unmounted = @ + 1]
    /\ Commit(<<SetLoadingUpdate(page, Bool(TRUE)), ClearErrorUpdate(page)>>)
    /\ UNCHANGED <<route, hook, input, output, local, seen>>
    /\ UNCHANGED clientVars

\* operations that run at once under the ids of the registry
RaceNext ==
    \/ \E page \in Components : Begin(page)
    \/ \E page \in Components, rv \in Revisions, net \in Answers :
          Complete(page, FALSE, rv, net)

RaceSpec == Init /\ [][RaceNext]_vars

\* reading the error of a component takes it out of the registry
Read_clearing(component) ==
    /\ seen' = [component |-> component, loading |-> isLoading(component),
                error |-> getError(component)]
    /\ errors' = ClearErrorUpdater(errors, component)
    /\ UNCHANGED <<loadingStates, queue, last>>
    /\ UNCHANGED clientVars
    /\ UNCHANGED <<route, hook, input, output, local, flights>>

\* a component renders: it calls isLoading(componentId) and reads
\* errors[componentId] || null
Read(component) ==
    /\ seen' = [component |-> component, loading |-> isLoading(component),
                error |-> getError(component)]
    /\ UNCHANGED registryVars
    /\ UNCHANGED clientVars
    /\ UNCHANGED <<route, hook, input, output, local, flights>>

ReadNext ==
    \/ RegistryNext
    \/ \E c \in Components : Read(c)

ReadSpec == Init /\ [][ReadNext]_vars

\* the event loop runs a continuation once the promise it awaits has settled;
\* nothing obliges the network or the server to answer
FairSpec ==
    /\ Spec
    /\ WF_vars(ResumeFetch)
    /\ WF_vars(ResumeErrorJson)
    /\ WF_vars(ResumeJson)

TypeOK ==
    /\ pc \in {"idle", "awaitFetch", "awaitErrorJson", "awaitJson", "done"}
    /\ requests \in 0..1
    /\ elapsed \in 0..(MaxElapsed + TickMs)
    /\ promise.state \in {"pending", "fulfilled", "rejected"}
    /\ result.type \in {"pending", "return", "throw"}

(***************************************************************************)
(* The outcome of a call as the specification reads it.                    *)
(***************************************************************************)
\* the call runs the current revision of postData
Current == args.rev = "current"

\* the call has returned a value
Returned == pc = "done" /\ result.type = "return"

\* the object returned
Outcome == result.value.obj

\* a response was obtained and its status is in [200,299]
Status2xx == response # NoResponse /\ Ok(response.status)

\* a response was obtained and its status is outside [200,299]
StatusNot2xx == response # NoResponse /\ ~Ok(response.status)

\* the body of the response was parsed
BodyWasParsed == response # NoResponse /\ promise.state = "fulfilled"

\* Success is populated: the value carries the parsed body of a 2xx response
SuccessPopulated == Status2xx /\ BodyWasParsed

\* Failure is populated: the value carries an error, which is what every
\* caller tests (`if (apiResponse.error)`)
FailurePopulated == ~Nullish(Outcome) /\ Truthy(Get(Outcome, "error"))

\* the message of a Failure
Message == Get(Outcome, "error")

\* the outcome is marked as a network error
MarkedNetworkError == ~Nullish(Outcome) /\ Truthy(Get(Outcome, "networkError"))

\* the data of a Success
SuccessData == IF args.rev = "current" THEN Outcome ELSE result.value.data

\* fetch() rejected: no response was obtained
NoResponseObtained ==
    requests = 1 /\ response = NoResponse /\ promise.state = "rejected"

\* an exception of the transport: fetch() rejected or the body stream broke
TransportException ==
    requests = 1 /\ promise.state = "rejected" /\ promise.error.name # "SyntaxError"

\* the body of the response is not valid JSON
BodyNotJson == promise.state = "rejected" /\ promise.error.name = "SyntaxError"

(***************************************************************************)
(* C1: no exception crosses the client boundary: whatever the arguments,   *)
(* the response and the transport do, a call that has ended has returned   *)
(* a value.                                                                *)
(***************************************************************************)
C1_NeverRaises ==
    /\ result.type # "throw"
    /\ pc = "done" => result.type = "return"

\* a call whose try block threw (a rejected promise) and that returned
C1_Witness == Returned /\ promise.state = "rejected"

(***************************************************************************)
(* C2, as stated: a 200 response with a valid JSON body yields a Success   *)
(* that carries status 200 and data equal to the parsed body.              *)
(***************************************************************************)
C2_Original ==
    (pc = "done" /\ response.status = 200 /\ BodyWasParsed) =>
        /\ result.type = "return"
        /\ Get(Outcome, "status") = Num(200)
        /\ SuccessData = body

(***************************************************************************)
(* C2, amended: a 200 response with a valid JSON body yields a returned    *)
(* value whose data is the parsed body: the parsed body itself in the      *)
(* current revision, { success: true, data: body } in the earlier one; no  *)
(* status of the response is added to it.                                  *)
(***************************************************************************)
C2_ReturnsParsedBody ==
    (pc = "done" /\ response.status = 200 /\ BodyWasParsed) =>
        /\ result.type = "return"
        /\ args.rev = "current" => result.value = Plain(body)
        /\ args.rev = "earlier" =>
              result.value = WithData([EmptyObject EXCEPT !.success = Bool(TRUE)], body)

\* 200 {"answer":"hi"} has been returned by the current revision
C2_Witness ==
    /\ Returned
    /\ args.rev = "current"
    /\ response.status = 200
    /\ BodyWasParsed
    /\ body = Object(Undefined, Undefined, Undefined, Str("hi"))

(***************************************************************************)
(* C3, as stated, of the current revision: every returned outcome is       *)
(* exactly one of Success and Failure, never both and never neither.       *)
(***************************************************************************)
C3_Original == (Returned /\ Current) => (SuccessPopulated # FailurePopulated)

(***************************************************************************)
(* C4, as stated, of the current revision: a response with a status        *)
(* outside [200,299] yields a Failure that is not a network error and      *)
(* carries the status of the response; its message is the `error` of the   *)
(* body when the body parses, the generated text when the body does not    *)
(* parse.  Read in the claim's favour where the body states a status of    *)
(* its own or has no `error`: nothing is asked of the status or of the     *)
(* message there.                                                          *)
(***************************************************************************)
C4_Original ==
    (pc = "done" /\ Current /\ StatusNot2xx) =>
        /\ result.type = "return"
        /\ FailurePopulated
        /\ ~MarkedNetworkError
        /\ ~(BodyWasParsed /\ ~Nullish(body) /\ Truthy(Get(body, "status"))) =>
              Get(Outcome, "status") = Num(response.status)
        /\ (BodyWasParsed /\ ~Nullish(body) /\ Truthy(Get(body, "error"))) =>
              Message = Get(body, "error")
        /\ promise.state = "rejected" =>
              Message = Str("Server error: " \o ToString(response.status)
                            \o " " \o response.statusText)

(***************************************************************************)
(* C5, as stated, of the current revision: a rejected fetch (no response   *)
(* obtained) yields a Failure marked as a network error, and the outcome   *)
(* of a request is marked as a network error only for an exception of the  *)
(* transport.                                                              *)
(***************************************************************************)
C5_Original ==
    (Returned /\ Current /\ requests = 1) =>
        /\ NoResponseObtained => (FailurePopulated /\ MarkedNetworkError)
        /\ MarkedNetworkError => TransportException

(***************************************************************************)
(* C6, as stated, of the current revision: a 2xx response whose body is    *)
(* not valid JSON yields a Failure that is a parse error: not a Success,   *)
(* not a network error.                                                    *)
(***************************************************************************)
C6_Original ==
    (pc = "done" /\ Current /\ Status2xx /\ BodyNotJson) =>
        /\ result.type = "return"
        /\ FailurePopulated
        /\ ~MarkedNetworkError

(***************************************************************************)
(* C7, as stated, of the current revision: every Failure (an outcome that  *)
(* is not the parsed body of a 2xx response) carries a message that is a   *)
(* non-empty string.                                                       *)
(***************************************************************************)
C7_Original ==
    (Returned /\ Current /\ ~SuccessPopulated) =>
        /\ FailurePopulated
        /\ Message.t = "string"
        /\ Message.s # ""

(***************************************************************************)
(* C8, as stated: once the timeout the caller passed has gone by without a *)
(* response, the request is no longer in flight and the outcome is a       *)
(* Failure obtained without a response.                                    *)
(***************************************************************************)
C8_Original ==
    (args.timeoutMs > 0 /\ elapsed > args.timeoutMs) =>
        /\ pc \in {"done", "idle"}
        /\ result.type = "return"
        /\ FailurePopulated
        /\ response = NoResponse

(***************************************************************************)
(* C9, as stated: every call eventually returns an outcome, also when the  *)
(* server never responds.                                                  *)
(***************************************************************************)
C9_Original == (pc = "awaitFetch") ~> (pc = "done")

(***************************************************************************)
(* C10: one call never issues more than one request (no caller can opt in  *)
(* to more attempts), and a call that has ended with a body that could be  *)
(* serialised has issued exactly one, whatever the response or failure.    *)
(***************************************************************************)
C10_OneRequest ==
    /\ requests <= 1
    /\ (pc = "done" /\ Stringify(args.data).type = "return") => requests = 1

\* a call that failed after its one request
C10_Witness ==
    /\ Returned
    /\ requests = 1
    /\ FailurePopulated
    /\ (StatusNot2xx \/ promise.state = "rejected")

(***************************************************************************)
(* Calls that ask for more than one attempt.                               *)
(***************************************************************************)
\* the call has ended with the response of a server error
EndedOnServerError ==
    pc = "done" /\ StatusNot2xx /\ RetryableStatus(response.status)

\* the call has ended because fetch() rejected
EndedOnRejectedFetch ==
    pc = "done" /\ requests >= 1 /\ response = NoResponse /\ promise.state = "rejected"

(***************************************************************************)
(* C11, as stated: a call with maxAttempts = 3 that has ended on a         *)
(* response of status 500 has made exactly 3 attempts.                     *)
(***************************************************************************)
C11_Original ==
    (Current /\ EndedOnServerError /\ args.maxAttempts = 3 /\ response.status = 500)
        => requests = 3

(***************************************************************************)
(* C12, as stated: failures that can be retried are followed by further    *)
(* attempts until a 2xx response arrives, so a call with maxAttempts = 4   *)
(* that has made fewer than 4 attempts has not ended on a 503.             *)
(***************************************************************************)
C12_Original ==
    (Current /\ pc = "done" /\ args.maxAttempts = 4 /\ requests < 4)
        => ~(StatusNot2xx /\ response.status = 503)

(***************************************************************************)
(* C13: a response whose status is outside 2xx and below 500, and a 2xx    *)
(* response whose body is not JSON, are never retried: whatever the number *)
(* of attempts the caller asked for, the call ends after that one request. *)
(***************************************************************************)
C13_NeverRetried ==
    /\ (StatusNot2xx /\ ~RetryableStatus(response.status)) => requests = 1
    /\ (Status2xx /\ BodyNotJson) => requests = 1

\* a 400 response to a call with maxAttempts = 5: ended after one request
C13_Witness ==
    /\ Returned
    /\ args.maxAttempts = 5
    /\ response # NoResponse
    /\ response.status = 400
    /\ FailurePopulated
    /\ requests = 1

(***************************************************************************)
(* C14, as stated: a call whose fetch() rejected is returned to the caller *)
(* only when no attempts remain.                                           *)
(***************************************************************************)
C14_Original ==
    (Current /\ EndedOnRejectedFetch) => requests = args.maxAttempts

(***************************************************************************)
(* C15, as stated: a failure that can be retried, with attempts remaining, *)
(* is followed by a wait of 2^1 * 1000 ms and a second attempt with the    *)
(* url and body of the first, so the call cannot have ended on such a      *)
(* failure after one request or before that wait has elapsed.              *)
(***************************************************************************)
C15_Original ==
    (Current /\ EndedOnServerError /\ args.maxAttempts >= 2)
        => /\ requests >= 2
           /\ elapsed >= 2^1 * 1000
           /\ sent = [url |-> args.url, body |-> Stringify(args.data).value.obj.prim.s]

(***************************************************************************)
(* The registry as its callers see it.                                     *)
(***************************************************************************)
\* the state the next render shows: the state with the enqueued updates applied
Flushed == ApplyAll([errors |-> errors, loadingStates |-> loadingStates], queue)

\* the loading flag and the error of a component in a state of the registry
LoadingIn(state, component) == Bool(Truthy(Lookup(state.loadingStates, component)))
ErrorIn(state, component) == Or(Lookup(state.errors, component), Null)

(***************************************************************************)
(* C16: for a component that was never written, isLoading returns false    *)
(* and the error read returns null, in every state of the registry.        *)
(***************************************************************************)
C16_UnknownIdDefaults ==
    \A c \in Components :
        ~last[c].written => (isLoading(c) = Bool(FALSE) /\ getError(c) = Null)

\* one component is loading with an error, another was never written
C16_Witness ==
    \E c, d \in Components :
        /\ ~last[c].written
        /\ isLoading(d) = Bool(TRUE)
        /\ getError(d) # Null

(***************************************************************************)
(* C17: setLoading(id, v) is unconditional and idempotent: whatever the    *)
(* state, the state it leads to has the loading flag of id equal to v, and *)
(* applying the same update to that state again changes nothing.           *)
(***************************************************************************)
C17_SetLoadingIdempotent ==
    [][\A c \in Components, b \in BOOLEAN :
          setLoading(c, Bool(b)) =>
              /\ Lookup(Flushed'.loadingStates, c) = Bool(b)
              /\ LoadingIn(Flushed', c) = Bool(b)
              /\ SetLoadingUpdater(Flushed'.loadingStates, c, Bool(b))
                    = Flushed'.loadingStates]_vars

\* setLoading(id, true) has been called on a component that is Errored
C17_Witness ==
    \E c \in Components :
        /\ getError(c) # Null
        /\ c \in DOMAIN loadingStates
        /\ isLoading(c) = Bool(FALSE)
        /\ queue = <<SetLoadingUpdate(c, Bool(TRUE))>>
        /\ LoadingIn(Flushed, c) = Bool(TRUE)

(***************************************************************************)
(* C18: the loading flag and the error are independent: setError and       *)
(* clearError leave every loading flag as it was, setLoading leaves every   *)
(* error as it was, and a render changes neither beyond what the writes    *)
(* asked for.                                                              *)
(***************************************************************************)
C18_LoadingErrorIndependent ==
    [][/\ \A c \in Components, m \in Messages :
             setError(c, Str(m)) => Flushed'.loadingStates = Flushed.loadingStates
       /\ \A c \in Components :
             clearError(c) => Flushed'.loadingStates = Flushed.loadingStates
       /\ \A c \in Components, b \in BOOLEAN :
             setLoading(c, Bool(b)) => Flushed'.errors = Flushed.errors
       /\ Render => (Flushed' = Flushed /\ errors' = Flushed.errors
                     /\ loadingStates' = Flushed.loadingStates)]_vars

\* setError(id, "boom") then setLoading(id, false): the error is still "boom"
C18_Witness ==
    \E c \in Components :
        /\ queue = <<>>
        /\ getError(c) = Str("boom")
        /\ c \in DOMAIN loadingStates
        /\ isLoading(c) = Bool(FALSE)

(***************************************************************************)
(* C19, as stated: a read returns what the latest write to the id set,     *)
(* also when it is made right after the write.                             *)
(***************************************************************************)
C19_Original ==
    \A c \in Components :
        /\ isLoading(c) = Bool(Truthy(last[c].loading))
        /\ getError(c) = last[c].error

(***************************************************************************)
(* C19, amended: once the provider has rendered after the writes (no       *)
(* update is waiting), a read returns what the latest write to the id set: *)
(* isLoading the flag of the latest setLoading, the error read the message *)
(* of the latest setError, or null after a later clearError.               *)
(***************************************************************************)
C19_ReadsAfterRender ==
    queue = <<>> =>
        \A c \in Components :
            /\ isLoading(c) = Bool(Truthy(last[c].loading))
            /\ getError(c) = last[c].error

\* setLoading(id, true) and setError(id, "boom") have been rendered
C19_Witness ==
    \E c \in Components :
        /\ queue = <<>>
        /\ last[c].written
        /\ isLoading(c) = Bool(TRUE)
        /\ getError(c) = Str("boom")

(***************************************************************************)
(* C20: after clearError(id) the error read for id is null, whatever it    *)
(* was, and clearError(id) on an id whose error is null changes nothing in *)
(* the registry.                                                           *)
(***************************************************************************)
C20_ClearError ==
    [][\A c \in Components :
          clearError(c) =>
              /\ ErrorIn(Flushed', c) = Null
              /\ ErrorIn(Flushed, c) = Null => Flushed' = Flushed]_vars

\* clearError on a component without error, while another has one
C20_Witness ==
    \E c, d \in Components :
        /\ queue = <<ClearErrorUpdate(c)>>
        /\ getError(c) = Null
        /\ getError(d) = Str("boom")
        /\ LoadingIn(Flushed, d) = Bool(TRUE)

(***************************************************************************)
(* The registry under its callers.                                         *)
(***************************************************************************)
\* the ids a caller may hand to the registry: those of the components that
\* use it, and ids no component ever writes
AnyId == Pages \cup {Home}

\* setLoading(id, true), setError(id, "boom") and clearError(id), applied to
\* the state the next render shows
WrittenThrough(id) ==
    ApplyAll(Flushed, <<SetLoadingUpdate(id, Bool(TRUE)), SetErrorUpdate(id, Str("boom")),
                        ClearErrorUpdate(id)>>)

C22_NoCrossTalk ==
    [][\A c, d \in Components :
          (/\ c # d
           /\ \/ \E m \in Messages : setError(c, Str(m))
              \/ clearError(c)
              \/ \E b \in BOOLEAN : setLoading(c, Bool(b)))
          => /\ LoadingIn(Flushed', d) = LoadingIn(Flushed, d)
             /\ ErrorIn(Flushed', d) = ErrorIn(Flushed, d)]_vars

\* two ids are loading at once, one of them with an error
C22_Witness ==
    \E c, d \in Components :
        /\ c # d
        /\ isLoading(c) = Bool(TRUE)
        /\ isLoading(d) = Bool(TRUE)
        /\ getError(c) = Str("boom")
        /\ getError(d) = Null

(***************************************************************************)
(* C23: a read of the registry changes nothing in the registry, and it     *)
(* returns what the last read of the same id returned when no write was    *)
(* rendered in between.                                                    *)
(***************************************************************************)
C23_ReadsRepeatable ==
    [][\A c \in Components :
          Read(c) =>
              /\ UNCHANGED registryVars
              /\ seen.component = c =>
                    (seen'.loading = seen.loading /\ seen'.error = seen.error)]_vars

\* a loading component with an error has been read, and a write is pending
C23_Witness ==
    /\ seen.component \in Components
    /\ seen.loading = Bool(TRUE)
    /\ seen.error = Str("boom")
    /\ queue # <<>>

(***************************************************************************)
(* C25: when several operations run under one id, the registry shows the   *)
(* last write to the id: an operation that finishes takes the loading flag *)
(* of the id down, whatever other operations are still in flight under it. *)
(***************************************************************************)
C25_LastWriteWins ==
    /\ [](\A c \in Components :
             /\ isLoading(c) = Bool(Truthy(last[c].loading))
             /\ getError(c) = last[c].error)
    /\ [][\A page \in Components, rv \in Revisions, net \in Answers :
             Complete(page, FALSE, rv, net) => isLoading(page)' = Bool(FALSE)]_vars

\* one operation has finished under an id while another is still in flight
C25_Witness ==
    \E c \in Components :
        /\ flights[c].unmounted >= 1
        /\ last[c].written
        /\ isLoading(c) = Bool(FALSE)

(***************************************************************************)
(* C26: whatever writes are pending, the state the next render shows holds *)
(* for every id the last loading flag and the last error written to it: no *)
(* write is lost or reverted by a write to another id.                     *)
(***************************************************************************)
C26_NoLostWrite ==
    \A c \in Components :
        /\ LoadingIn(Flushed, c) = Bool(Truthy(last[c].loading))
        /\ ErrorIn(Flushed, c) = last[c].error

\* two writes to different ids are pending before the next render
C26_Witness ==
    /\ Len(queue) >= 2
    /\ queue[1].component # queue[2].component
    /\ queue[1].op = "setLoading" /\ queue[1].value = Bool(TRUE)
    /\ queue[2].op = "setError"

(***************************************************************************)
(* The tool components under their users.                                  *)
(***************************************************************************)
\* the server answered 2xx with a JSON object that reports no error
SuccessAnswer(net) ==
    /\ net.fetch.state = "fulfilled"
    /\ Ok(net.response.status)
    /\ net.json.state = "fulfilled"
    /\ ~Nullish(net.body)
    /\ ~Truthy(Get(net.body, "error"))

\* no response, a status outside 2xx, or a body that is not JSON
FailureAnswer(net) ==
    \/ net.fetch.state = "rejected"
    \/ ~Ok(net.response.status)
    \/ net.json.state = "rejected"

\* an input the validation is to refuse: empty or whitespace-only text, a
\* question below five characters, an amount missing or not above zero
Invalid(page, form) ==
    \/ Trim(form.text) = ""
    \/ page = "policy-advisor" /\ Len(Trim(form.text)) < 5
    \/ page = "invoice-generator" /\ (form.amount = "" \/ ParseFloat(form.amount) <= 0)

\* where a component keeps what it reports: the registry, its own error
\* state, or (AMA, which has no error state) the response it shows
Reported(page) ==
    CASE page \in Components -> getError(page)
      [] page = "ama" -> output
      [] OTHER -> local.error

(***************************************************************************)
(* C24: a submission that set loading(id) sets it back to false when the   *)
(* request has an outcome, sets the error of id when the outcome is a      *)
(* failure and leaves it cleared when the outcome is a success.            *)
(***************************************************************************)
C24_Original ==
    [][\A page \in Components, net \in Answers :
          Complete(page, TRUE, "current", net) =>
              /\ isLoading(page)' = Bool(FALSE)
              /\ SuccessAnswer(net) => getError(page)' = Null
              /\ FailureAnswer(net) => getError(page)' # Null]_vars

(***************************************************************************)
(* C27: at most one request of a tool component is in flight at any time.  *)
(***************************************************************************)
C27_Original == \A page \in Pages : InFlight(page) <= 1

(***************************************************************************)
(* C27, amended: a mounted component has at most one request in flight,    *)
(* and it is loading while it has one; a component that keeps its loading  *)
(* flag in the registry has at most one request in flight over all its     *)
(* instances, and its flag is up while it has one.                         *)
(***************************************************************************)
C27_OneRequestPerInstance ==
    \A page \in Pages :
        /\ flights[page].mounted <= 1
        /\ flights[page].mounted = 1 => (route = page /\ Loading(page))
        /\ page \in Components =>
              (InFlight(page) <= 1 /\ (InFlight(page) = 1 => Loading(page)))

\* a component that uses the registry was left and shown again while its
\* request is in flight, and so was one that keeps its flag itself: the
\* controls of the component shown are disabled
C27_Witness ==
    /\ route \in Components
    /\ flights[route].unmounted = 1
    /\ Loading(route)
    /\ \E page \in LocalPages : flights[page].unmounted = 1

(***************************************************************************)
(* C28: when the server answers 2xx with valid JSON the component ends     *)
(* with the result stored and no error; when the request fails it ends     *)
(* with an error stored and no result.                                     *)
(***************************************************************************)
C28_Original ==
    [][\A page \in Components, net \in Answers :
          Complete(page, TRUE, "current", net) =>
              /\ SuccessAnswer(net) => (output' # Str("") /\ getError(page)' = Null)
              /\ FailureAnswer(net) => (output' = Str("") /\ getError(page)' # Null)]_vars

(***************************************************************************)
(* C29: a submission of an invalid input issues no request, leaves the     *)
(* component not loading and leaves it reporting a validation message.     *)
(***************************************************************************)
C29_InvalidInputNoRequest ==
    [][(Submit /\ Invalid(route, input)) =>
          /\ flights' = flights
          /\ ~Loading(route)'
          /\ Truthy(Reported(route)')]_vars

\* an invoice with an amount of zero was submitted: the message is in the
\* registry and no request is in flight
C29_Witness ==
    /\ route = "invoice-generator"
    /\ input = Invoice("Acme", "Video", "0")
    /\ getError(route) = Str("Please enter a valid amount greater than zero.")
    /\ ~Loading(route)
    /\ AllInFlight = 0

(***************************************************************************)
(* C30: a component that uses the registry never holds an error and a      *)
(* result at once: when its error is not null and it is not loading, its   *)
(* result is empty.                                                        *)
(***************************************************************************)
C30_Original ==
    (route \in Components /\ getError(route) # Null /\ ~Loading(route))
        => output = Str("")
====
